---- MODULE Spec2Model ----
(***************************************************************************)
(* Super simple stocks application (src/src/app.py): Stock, Trade and      *)
(* StockMarket.  The source is Python 2 (reduce is a builtin, divisions    *)
(* are forced to float with float()).  Numbers are exact rationals kept in *)
(* lowest terms; Python values carry a tag so that None, False, numbers,   *)
(* strings and raised exceptions can be told apart.                        *)
(***************************************************************************)
EXTENDS Integers, Sequences, FiniteSets, TLC

VARIABLES
    clock,              \* the value time() returns now (seconds)
    default_trade_time, \* generate_trade's default argument, time() at def time
    stock_objs,         \* the Stock objects constructed so far, by identity
    trades,             \* StockMarket.trades
    stocks,             \* StockMarket.stocks
    last                \* the last call made and what it returned or raised

vars == <<clock, default_trade_time, stock_objs, trades, stocks, last>>

-----------------------------------------------------------------------------
(* Bounds of the model *)

MaxClock == 1801
MaxLedger == 3
MaxBatch == 2

-----------------------------------------------------------------------------
(* Python values *)

PyNone == [tag |-> "None"]
PyFalse == [tag |-> "False"]
Omitted == [tag |-> "omitted"]
PyInt(k) == [tag |-> "int", v |-> k]
PyStr(s) == [tag |-> "str", v |-> s]
Raise(exc) == [tag |-> "raise", exc |-> exc]

RECURSIVE GCD(_, _)
GCD(a, b) == IF b = 0 THEN a ELSE GCD(b, a % b)

Abs(k) == IF k < 0 THEN -k ELSE k

\* the float n / d (d # 0), in lowest terms with a positive denominator
Num(n, d) ==
    LET g == GCD(Abs(n), Abs(d))
        s == IF d < 0 THEN -1 ELSE 1
    IN [tag |-> "num", n |-> (s * n) \div g, d |-> (s * d) \div g]

IsNumber(x) == x.tag \in {"int", "num"}

\* float(x) for an int or a float
Float(x) == IF x.tag = "int" THEN Num(x.v, 1) ELSE x

\* bool(x): None, False, 0, 0.0 and "" are false
Truthy(x) ==
    CASE x.tag = "None" -> FALSE
      [] x.tag = "False" -> FALSE
      [] x.tag = "int" -> x.v # 0
      [] x.tag = "num" -> x.n # 0
      [] x.tag = "str" -> x.v # ""
      [] OTHER -> TRUE

\* x < 0 for a number
LtZero(x) == Float(x).n < 0

\* a * b and a / b on numbers (float result); b # 0 in Div
Mul(a, b) == Num(Float(a).n * Float(b).n, Float(a).d * Float(b).d)
Div(a, b) == Num(Float(a).n * Float(b).d, Float(a).d * Float(b).n)

-----------------------------------------------------------------------------
(* Module constants *)

VALID_INDICATORS == <<"Buy", "Sell">>

HISTORICAL_TRADES_TIME == 900

InList(x, list) == \E i \in DOMAIN list : x.tag = "str" /\ x.v = list[i]

-----------------------------------------------------------------------------
(* class Stock *)

\* Stock.__init__: fixed_dividend is set only for a Preferred stock, to the
\* argument as given (None when the argument is omitted).
StockInit(stock_symbol, stock_type, last_dividend, par_value, fixed_dividend) ==
    IF stock_type = "Preferred"
    THEN [stock_symbol |-> stock_symbol, stock_type |-> stock_type,
          last_dividend |-> last_dividend, par_value |-> par_value,
          fixed_dividend |-> IF fixed_dividend = Omitted THEN PyNone
                             ELSE fixed_dividend]
    ELSE [stock_symbol |-> stock_symbol, stock_type |-> stock_type,
          last_dividend |-> last_dividend, par_value |-> par_value]

\* Stock.dividend_yield
dividend_yield(self, price) ==
    IF ~Truthy(price) \/ LtZero(price)
    THEN Num(0, 1)
    ELSE IF self.stock_type = "Common"
    THEN Div(self.last_dividend, Float(price))
    ELSE IF self.stock_type = "Preferred"
    THEN IF ~IsNumber(self.fixed_dividend)  \* None * par_value
         THEN Raise("TypeError")
         ELSE Div(Mul(self.fixed_dividend, self.par_value), Float(price))
    ELSE PyNone

\* calc_pe_ratio with the ratio turned over: last_dividend / price
calc_pe_ratio_inverted(self, price) ==
    IF ~Truthy(price) \/ LtZero(price)
    THEN Num(0, 1)
    ELSE IF ~Truthy(self.last_dividend)
    THEN Num(0, 1)
    ELSE Div(self.last_dividend, Float(price))

\* Stock.calc_pe_ratio
calc_pe_ratio(self, price) ==
    IF ~Truthy(price) \/ LtZero(price)
    THEN Num(0, 1)
    ELSE IF ~Truthy(self.last_dividend)
    THEN Num(0, 1)
    ELSE Div(Float(price), self.last_dividend)

\* datetime.fromtimestamp(t).strftime("%Y-%m-%d %H:%M:%S"), as day number
\* and time of day
strftime(t) ==
    [day |-> t \div 86400, hh |-> (t % 86400) \div 3600,
     mm |-> (t % 3600) \div 60, ss |-> t % 60]

\* Trade.__init__
TradeInit(stock, quantity_stocks, indicator, price, trade_time) ==
    [tag |-> "Trade", stock |-> stock, trade_time |-> trade_time,
     timestamp |-> strftime(trade_time),
     quantity_stocks |-> quantity_stocks, indicator |-> indicator,
     price |-> price]

\* generate_trade without the validation of quantity_stocks
generate_trade_any_quantity(self, quantity_stocks, indicator, price, trade_time, dflt) ==
    IF ~Truthy(price) \/ LtZero(price)
    THEN PyFalse
    ELSE IF ~Truthy(indicator) \/ ~InList(indicator, VALID_INDICATORS)
    THEN PyFalse
    ELSE TradeInit(self, quantity_stocks, indicator, price,
                   IF trade_time = Omitted THEN dflt ELSE trade_time.v)

\* Stock.generate_trade; self is the identity of the calling stock and dflt
\* the default value of trade_time, evaluated when the method was defined
generate_trade(self, quantity_stocks, indicator, price, trade_time, dflt) ==
    IF ~Truthy(price) \/ LtZero(price)
    THEN PyFalse
    ELSE IF ~Truthy(indicator) \/ ~InList(indicator, VALID_INDICATORS)
    THEN PyFalse
    ELSE IF ~Truthy(quantity_stocks) \/ LtZero(quantity_stocks)
    THEN PyFalse
    ELSE TradeInit(self, quantity_stocks, indicator, price,
                   IF trade_time = Omitted THEN dflt ELSE trade_time.v)

-----------------------------------------------------------------------------
(* class StockMarket *)

\* record_trade with the membership test turned over: no stock is ever added
record_trade_untracked(market, trade) ==
    [trades |-> Append(market.trades, trade),
     stocks |-> IF trade.stock \in market.stocks
                THEN market.stocks \cup {trade.stock}
                ELSE market.stocks]

\* record_trade that drops a trade the ledger already holds
record_trade_dedup(market, trade) ==
    [trades |-> IF \E i \in DOMAIN market.trades : market.trades[i] = trade
                THEN market.trades
                ELSE Append(market.trades, trade),
     stocks |-> IF trade.stock \notin market.stocks
                THEN market.stocks \cup {trade.stock}
                ELSE market.stocks]

\* the body of the for loop of record_trades, for one trade
record_trade(market, trade) ==
    [trades |-> Append(market.trades, trade),
     stocks |-> IF trade.stock \notin market.stocks
                THEN market.stocks \cup {trade.stock}
                ELSE market.stocks]

\* StockMarket.record_trades: the for loop over the batch, in order
RECURSIVE record_trades(_, _)
record_trades(market, batch) ==
    IF batch = <<>>
    THEN market
    ELSE record_trades(record_trade(market, Head(batch)), Tail(batch))

\* is_recent with a window that is open at 900 seconds
is_recent_strict(trade, stock, now) ==
    now - trade.trade_time < HISTORICAL_TRADES_TIME /\ trade.stock = stock

\* the condition of the list comprehension that selects the recent trades
is_recent(trade, stock, now) ==
    now - trade.trade_time <= HISTORICAL_TRADES_TIME /\ trade.stock = stock

recent_trades(ledger, stock, now) ==
    SelectSeq(ledger, LAMBDA trade : is_recent(trade, stock, now))

\* sum(trade.price * trade.quantity_stocks for trade in recent)
RECURSIVE numerator(_)
numerator(recent) ==
    IF recent = <<>> THEN 0
    ELSE Head(recent).price.v * Head(recent).quantity_stocks.v
         + numerator(Tail(recent))

\* sum(trade.quantity_stocks for trade in recent)
RECURSIVE denominator(_)
denominator(recent) ==
    IF recent = <<>> THEN 0
    ELSE Head(recent).quantity_stocks.v + denominator(Tail(recent))

\* volume_weighted_stock_price that answers 0 when no trade is recent
volume_weighted_stock_price_fallback(market, stock, now) ==
    IF stock \notin market.stocks
    THEN PyInt(0)
    ELSE LET recent == recent_trades(market.trades, stock, now)
         IN IF denominator(recent) = 0
            THEN PyInt(0)
            ELSE Num(numerator(recent), denominator(recent))

\* StockMarket.volume_weighted_stock_price, time() reading now
volume_weighted_stock_price(market, stock, now) ==
    IF stock \notin market.stocks
    THEN PyInt(0)
    ELSE LET recent == recent_trades(market.trades, stock, now)
         IN IF denominator(recent) = 0
            THEN Raise("ZeroDivisionError")
            ELSE Num(numerator(recent), denominator(recent))

\* reduce(mul, values) over the values the generator yields, the first
\* exception raised by the generator ending the reduction
RECURSIVE reduce_mul(_, _, _, _)
reduce_mul(acc, rest, market, now) ==
    IF rest = {}
    THEN acc
    ELSE LET stock == CHOOSE s \in rest : TRUE
             value == volume_weighted_stock_price(market, stock, now)
         IN IF value.tag = "raise"
            THEN value
            ELSE reduce_mul(Mul(acc, value), rest \ {stock}, market, now)

\* number_of_stocks counting the trades instead of the stocks
number_of_trades(market) == Len(market.trades)

\* len(self.stocks)
number_of_stocks(market) == Cardinality(market.stocks)

\* product ** exponent, kept as the power itself
Pow(base, exponent) == [tag |-> "pow", base |-> base, exponent |-> exponent]

\* StockMarket.all_share_index
all_share_index(market, now) ==
    LET product ==
            IF market.stocks = {}
            THEN Raise("TypeError")  \* reduce() of empty sequence
            ELSE LET first == CHOOSE s \in market.stocks : TRUE
                     value == volume_weighted_stock_price(market, first, now)
                 IN IF value.tag = "raise"
                    THEN value
                    ELSE reduce_mul(Float(value), market.stocks \ {first},
                                    market, now)
    IN IF product.tag = "raise"
       THEN product
       ELSE IF number_of_stocks(market) = 0
       THEN Raise("ZeroDivisionError")
       ELSE Pow(product, Div(PyInt(1), PyInt(number_of_stocks(market))))

-----------------------------------------------------------------------------
(* The program as a state machine.  A Stock is known by its identity (Stock *)
(* defines no __eq__ or __hash__); stock_objs maps each identity to the     *)
(* object's attributes and a Trade's stock field holds the identity.        *)

NoCall == [op |-> "none"]

Market == [trades |-> trades, stocks |-> stocks]

\* time passes between two calls
Tick(d) ==
    /\ clock + d <= MaxClock
    /\ clock' = clock + d
    /\ last' = NoCall
    /\ UNCHANGED <<default_trade_time, stock_objs, trades, stocks>>

\* Stock(stock_symbol, stock_type, last_dividend, par_value[, fixed_dividend])
NewStock(id, stock_type, last_dividend, par_value, fixed_dividend) ==
    /\ id \notin DOMAIN stock_objs
    /\ stock_objs' = stock_objs @@
           (id :> StockInit(id, stock_type, last_dividend, par_value,
                            fixed_dividend))
    /\ last' = [op |-> "Stock", ret |-> id, fixed_dividend |-> fixed_dividend]
    /\ UNCHANGED <<clock, default_trade_time, trades, stocks>>

\* stock.dividend_yield(price)
DividendYield(id, price) ==
    /\ id \in DOMAIN stock_objs
    /\ last' = [op |-> "dividend_yield", self |-> id, price |-> price,
                ret |-> dividend_yield(stock_objs[id], price)]
    /\ UNCHANGED <<clock, default_trade_time, stock_objs, trades, stocks>>

\* stock.calc_pe_ratio(price)
CalcPeRatio(id, price) ==
    /\ id \in DOMAIN stock_objs
    /\ last' = [op |-> "calc_pe_ratio", self |-> id, price |-> price,
                ret |-> calc_pe_ratio(stock_objs[id], price)]
    /\ UNCHANGED <<clock, default_trade_time, stock_objs, trades, stocks>>

\* stock.generate_trade(quantity_stocks, indicator, price[, trade_time])
GenerateTrade(id, quantity_stocks, indicator, price, trade_time) ==
    /\ id \in DOMAIN stock_objs
    /\ last' = [op |-> "generate_trade", self |-> id,
                quantity_stocks |-> quantity_stocks, indicator |-> indicator,
                price |-> price, trade_time |-> trade_time,
                ret |-> generate_trade(id, quantity_stocks, indicator, price,
                                       trade_time, default_trade_time)]
    /\ UNCHANGED <<clock, default_trade_time, stock_objs, trades, stocks>>

\* market.record_trades(batch)
RecordTrades(batch) ==
    /\ Len(trades) + Len(batch) <= MaxLedger
    /\ LET after == record_trades(Market, batch)
       IN /\ trades' = after.trades
          /\ stocks' = after.stocks
    /\ last' = [op |-> "record_trades"]
    /\ UNCHANGED <<clock, default_trade_time, stock_objs>>

\* market.volume_weighted_stock_price(stock)
VolumeWeightedStockPrice(id) ==
    /\ id \in DOMAIN stock_objs
    /\ last' = [op |-> "volume_weighted_stock_price", stock |-> id,
                ret |-> volume_weighted_stock_price(Market, id, clock)]
    /\ UNCHANGED <<clock, default_trade_time, stock_objs, trades, stocks>>

\* market.all_share_index
AllShareIndex ==
    /\ last' = [op |-> "all_share_index",
                ret |-> all_share_index(Market, clock)]
    /\ UNCHANGED <<clock, default_trade_time, stock_objs, trades, stocks>>

-----------------------------------------------------------------------------
(* Inputs *)

\* time passes in steps that bring a trade to the edge of the window of
\* historical trades, or just beyond it
TickSteps == {HISTORICAL_TRADES_TIME, HISTORICAL_TRADES_TIME + 1}

\* the stocks of the test fixture that the first market trades
FixtureStocks ==
    ("TEA" :> StockInit("TEA", "Common", PyInt(0), PyInt(100), Omitted)) @@
    ("GIN" :> StockInit("GIN", "Preferred", PyInt(8), PyInt(100), Num(2, 100)))

\* valid trade requests, as (quantity, indicator, price)
TradeRequests ==
    {<<PyInt(1), PyStr("Buy"), PyInt(2)>>, <<PyInt(3), PyStr("Sell"), PyInt(5)>>}

\* trade_time is left out or is time()
TradeTimes == {Omitted, PyInt(clock)}

\* the trades a caller obtains from generate_trade with trade_time=time()
TradesNow ==
    {generate_trade(id, r[1], r[2], r[3], PyInt(clock), default_trade_time) :
        id \in DOMAIN stock_objs, r \in TradeRequests}

Batches == UNION {[1..n -> TradesNow] : n \in 0..MaxBatch}

\* arguments of every kind for the methods of Stock
Prices == {PyNone, PyInt(-1), PyInt(0), PyInt(1), PyInt(4)}
Quantities == {PyNone, PyInt(-2), PyInt(0), PyInt(3)}
Indicators == {PyNone, PyStr("Hold"), PyStr("Buy"), PyStr("Sell")}
StockIds == {"TEA", "GIN"}
StockTypes == {"Common", "Preferred"}
LastDividends == {PyInt(0), PyInt(8)}
ParValues == {PyInt(60), PyInt(100)}
FixedDividends == {Omitted, Num(2, 100)}

-----------------------------------------------------------------------------
(* Specification of the market: the fixture's stocks, traded over time *)

Init ==
    /\ clock = 0
    /\ default_trade_time = clock
    /\ stock_objs = FixtureStocks
    /\ trades = <<>>
    /\ stocks = {}
    /\ last = NoCall

Next ==
    \/ \E d \in TickSteps : Tick(d)
    \/ \E batch \in Batches : RecordTrades(batch)
    \/ \E id \in DOMAIN stock_objs : VolumeWeightedStockPrice(id)
    \/ AllShareIndex

Spec == Init /\ [][Next]_vars

(* Specification of the stocks: any stocks, asked for their ratios at any *)
(* price                                                                   *)

InitStock ==
    /\ clock = 0
    /\ default_trade_time = clock
    /\ stock_objs = <<>>
    /\ trades = <<>>
    /\ stocks = {}
    /\ last = NoCall

NextStock ==
    \/ \E id \in StockIds, ty \in StockTypes, ld \in LastDividends,
          pv \in ParValues, fd \in FixedDividends :
           NewStock(id, ty, ld, pv, fd)
    \/ \E id \in DOMAIN stock_objs, price \in Prices : DividendYield(id, price)
    \/ \E id \in DOMAIN stock_objs, price \in Prices : CalcPeRatio(id, price)

SpecStock == InitStock /\ [][NextStock]_vars

(* Specification of trade generation: the fixture's stocks, asked for      *)
(* trades with arguments of every kind, over time                          *)

NextTrade ==
    \/ \E d \in TickSteps : Tick(d)
    \/ \E id \in DOMAIN stock_objs, q \in Quantities, i \in Indicators,
          p \in Prices, t \in TradeTimes :
           GenerateTrade(id, q, i, p, t)

SpecTrade == Init /\ [][NextTrade]_vars

-----------------------------------------------------------------------------
(* What the claims speak of, stated on the ledger itself *)

IsPositive(x) == x.tag = "int" /\ x.v > 0

TradedStocks == {trades[i].stock : i \in DOMAIN trades}

\* the ledger entries of a stock that are at most 900 seconds old
WindowOf(id) ==
    {i \in DOMAIN trades :
        trades[i].stock = id /\ clock - trades[i].trade_time <= 900}

RECURSIVE SumPriceQuantity(_)
SumPriceQuantity(I) ==
    IF I = {} THEN 0
    ELSE LET i == CHOOSE j \in I : TRUE
         IN trades[i].price.v * trades[i].quantity_stocks.v
            + SumPriceQuantity(I \ {i})

RECURSIVE SumQuantity(_)
SumQuantity(I) ==
    IF I = {} THEN 0
    ELSE LET i == CHOOSE j \in I : TRUE
         IN trades[i].quantity_stocks.v + SumQuantity(I \ {i})

WeightedPrice(id) ==
    Num(SumPriceQuantity(WindowOf(id)), SumQuantity(WindowOf(id)))

RECURSIVE ProductOfWeightedPrices(_)
ProductOfWeightedPrices(S) ==
    IF S = {} THEN Num(1, 1)
    ELSE LET id == CHOOSE x \in S : TRUE
         IN Mul(WeightedPrice(id), ProductOfWeightedPrices(S \ {id}))

IsPrefix(a, b) == Len(a) <= Len(b) /\ SubSeq(b, 1, Len(a)) = a

-----------------------------------------------------------------------------
\* C1: volume_weighted_stock_price returns 0 for a stock the market does not
\* track; for a tracked stock with a trade in the window it returns
\* sum(price * quantity) / sum(quantity) over exactly the ledger entries of
\* that stock with now - trade_time <= 900, now being the clock at the query:
\* an entry aged exactly 900 counts, an older one does not, entries of other
\* stocks do not, and an entry recorded twice counts twice.
C1_VolumeWeightedPrice ==
    last.op = "volume_weighted_stock_price" =>
        /\ last.stock \notin stocks => last.ret = PyInt(0)
        /\ (last.stock \in stocks /\ WindowOf(last.stock) # {}) =>
               last.ret = WeightedPrice(last.stock)

\* a query that includes a trade aged exactly 900, excludes an older trade of
\* the same stock, and leaves out another stock's trade
C1_Witness ==
    /\ last.op = "volume_weighted_stock_price"
    /\ last.ret.tag = "num"
    /\ \E i, j, k \in DOMAIN trades :
          /\ trades[i].stock = last.stock
          /\ clock - trades[i].trade_time = 900
          /\ trades[j].stock = last.stock
          /\ clock - trades[j].trade_time > 900
          /\ trades[k].stock # last.stock

\* C2: in every reachable state of a market the tracked-stock set is exactly
\* the set of stocks referenced by the trades in the ledger.
C2_TrackedAreTraded == stocks = TradedStocks

\* a ledger holding a trade twice and trades of two stocks
C2_Witness ==
    /\ Len(trades) = 3
    /\ trades[1] = trades[2]
    /\ Cardinality(stocks) = 2

\* C3: record_trades(B) turns the ledger L into L followed by the trades of B
\* in B's order, duplicates kept; across any step the earlier ledger is a
\* prefix of the later one and the tracked-stock set never shrinks.
C3_AppendOnly ==
    [][/\ IsPrefix(trades, trades')
       /\ stocks \subseteq stocks'
       /\ \A batch \in Batches :
              RecordTrades(batch) => trades' = trades \o batch]_vars

\* a ledger built by two calls (trades of two instants), the first batch
\* holding the same trade twice
C3_Witness ==
    /\ last.op = "record_trades"
    /\ Len(trades) = 3
    /\ trades[1] = trades[2]
    /\ trades[2].trade_time < trades[3].trade_time

\* C4: generate_trade produces a Trade if and only if price > 0, quantity > 0
\* and indicator is Buy or Sell, and returns the failure signal otherwise; a
\* produced Trade carries the calling stock and the given quantity,
\* indicator, price and time.
C4_GenerateTradeValidates ==
    last.op = "generate_trade" =>
        IF /\ IsPositive(last.price)
           /\ IsPositive(last.quantity_stocks)
           /\ last.indicator \in {PyStr("Buy"), PyStr("Sell")}
        THEN /\ last.ret.tag = "Trade"
             /\ last.ret.stock = last.self
             /\ last.ret.quantity_stocks = last.quantity_stocks
             /\ last.ret.indicator = last.indicator
             /\ last.ret.price = last.price
             /\ last.trade_time # Omitted =>
                    last.ret.trade_time = last.trade_time.v
        ELSE last.ret = PyFalse

\* a Trade produced for GIN with a trade time given after time has passed
C4_Witness ==
    /\ last.op = "generate_trade"
    /\ last.ret.tag = "Trade"
    /\ last.ret.stock = "GIN"
    /\ last.trade_time # Omitted
    /\ last.ret.trade_time > 0

\* C5: with n >= 1 tracked stocks, each with a trade inside the window,
\* all_share_index is the n-th root of the product of the volume-weighted
\* prices of exactly the tracked stocks, one factor per stock, n being the
\* number of tracked stocks.
C5_GeometricMean ==
    (/\ last.op = "all_share_index"
     /\ TradedStocks # {}
     /\ \A id \in TradedStocks : WindowOf(id) # {}) =>
        last.ret = Pow(ProductOfWeightedPrices(TradedStocks),
                       Num(1, Cardinality(TradedStocks)))

\* an index over two stocks and three trades
C5_Witness ==
    /\ last.op = "all_share_index"
    /\ last.ret.tag = "pow"
    /\ Cardinality(stocks) = 2
    /\ Len(trades) = 3

\* C6: dividend_yield is 0 when price <= 0 or absent; for price > 0 it is
\* last_dividend / price for a Common stock and
\* fixed_dividend * par_value / price for a Preferred stock.
C6_DividendYield ==
    last.op = "dividend_yield" =>
        LET self == stock_objs[last.self]
        IN IF ~IsPositive(last.price)
           THEN last.ret = Num(0, 1)
           ELSE IF self.stock_type = "Common"
           THEN last.ret = Num(self.last_dividend.v, last.price.v)
           ELSE /\ last.ret.tag = "num"
                /\ self.fixed_dividend.tag = "num"
                /\ last.ret = Num(self.fixed_dividend.n * self.par_value.v,
                                  self.fixed_dividend.d * last.price.v)

\* C7: calc_pe_ratio is 0 when price <= 0 or absent, 0 when last_dividend is
\* 0, and price / last_dividend otherwise, whatever the stock's type, par
\* value and fixed dividend.
C7_PeRatio ==
    last.op = "calc_pe_ratio" =>
        LET self == stock_objs[last.self]
        IN last.ret = IF ~IsPositive(last.price) THEN Num(0, 1)
                      ELSE IF self.last_dividend.v = 0 THEN Num(0, 1)
                      ELSE Num(last.price.v, self.last_dividend.v)

\* the ratio of a Preferred stock that was given no fixed dividend
C7_Witness ==
    /\ last.op = "calc_pe_ratio"
    /\ stock_objs[last.self].stock_type = "Preferred"
    /\ stock_objs[last.self].fixed_dividend = PyNone
    /\ last.ret = Num(4, 8)

\* C8: a Trade generated with the time argument omitted has the clock value
\* at the instant of the call as its trade time, so it lies inside the
\* 900-second window of a query made at that instant.
C8_DefaultTimeIsNow ==
    (/\ last.op = "generate_trade"
     /\ last.trade_time = Omitted
     /\ last.ret.tag = "Trade") =>
        /\ last.ret.trade_time = clock
        /\ clock - last.ret.trade_time <= 900

\* the degenerate queries: a tracked stock with no trade in the window, an
\* index over no stock or over a stock in that condition
C9_Degenerate ==
    \/ /\ last.op = "volume_weighted_stock_price"
       /\ last.stock \in stocks
       /\ WindowOf(last.stock) = {}
    \/ /\ last.op = "all_share_index"
       /\ \/ stocks = {}
          \/ \E id \in stocks : WindowOf(id) = {}

\* C9 as stated: every degenerate aggregate query ends in an arithmetic
\* fault.
C9_ArithmeticFault ==
    C9_Degenerate => last.ret = Raise("ZeroDivisionError")

\* C9 as amended: every degenerate aggregate query ends in an error and
\* returns no number, the error being a division by zero except for
\* all_share_index on a market with no tracked stock, which ends in the
\* TypeError of reducing an empty sequence; the query leaves the ledger and
\* the tracked-stock set unchanged.
C9_ErrorOutcome ==
    [][C9_Degenerate' =>
          /\ last'.ret = IF last'.op = "all_share_index" /\ stocks' = {}
                         THEN Raise("TypeError")
                         ELSE Raise("ZeroDivisionError")
          /\ trades' = trades
          /\ stocks' = stocks]_vars

\* an index over two stocks, one of them with no trade left in the window
C9_Witness ==
    /\ last.op = "all_share_index"
    /\ last.ret.tag = "raise"
    /\ Cardinality(stocks) = 2
    /\ \E id \in stocks : WindowOf(id) # {}
    /\ \E id \in stocks : WindowOf(id) = {}

\* C10: a stock carries a fixed-dividend value if and only if its type is
\* Preferred, whether or not the fixed dividend argument was supplied.
C10_FixedDividendIffPreferred ==
    \A id \in DOMAIN stock_objs :
        LET self == stock_objs[id]
        IN ("fixed_dividend" \in DOMAIN self /\ IsNumber(self.fixed_dividend))
           <=> self.stock_type = "Preferred"

====
